---- MODULE Spec2Model ----
(***************************************************************************)
(* Model of tools/pack_maskmap.py: one run of main() from the parsed       *)
(* command line to process exit.  A raster is followed at one arbitrary    *)
(* pixel position: an image is [mode, size, px] where px is the tuple of   *)
(* band values at that position.  The pixel content of a file is read from *)
(* the environment when the file is decoded.                               *)
(*                                                                         *)
(* Inputs covered: each flag is absent or names its own file, which is     *)
(* missing or a decodable picture of one of the resolutions in Sizes; the  *)
(* --out path is a bare file name or has one parent directory, present or  *)
(* not.  Not covered: two flags naming the same file, an empty string as a *)
(* flag value, a file that exists but cannot be decoded, an --out path     *)
(* that cannot be written.                                                 *)
(***************************************************************************)
EXTENDS Integers, Sequences, FiniteSets, TLC

\* ------------------------------------------------------------------ bounds
MaxDim == 2

\* image resolutions found on disk: non-square, so width and height differ
Sizes == {<<w, MaxDim + 1 - w>> : w \in 1..MaxDim}

\* values one pixel of a decoded file can have
Samples == {0, 100, 255}

\* --default-smoothness values, as exact fractions <<numerator, denominator>>
DefaultSmoothnessValues == {<<0 - 1, 2>>, <<1, 2>>, <<3, 2>>}

\* --out values, as sequences of path components
OutPaths == {<<"mask.png">>, <<"out", "mask.png">>}

\* ------------------------------------------------------------ Python values
None == "None"

Truthy(p) == p # None /\ p # ""

NoSize == <<0, 0>>

NoImage == [mode |-> "", size |-> NoSize, px |-> <<>>]

\* ------------------------------------------------------------ command line
Modes == {"urp-terrain", "hdrp", "urp-ra"}

\* the attribute order of the candidate loop of main
Attrs == <<"metallic", "occlusion", "height", "detail", "smoothness", "roughness">>

\* hasattr(args, attr): the flags build_parser gives each subcommand
HasAttr(mode, attr) ==
    CASE mode = "urp-terrain" -> attr \in {"metallic", "occlusion", "height", "smoothness", "roughness"}
      [] mode = "hdrp"        -> attr \in {"metallic", "occlusion", "detail", "smoothness", "roughness"}
      [] mode = "urp-ra"      -> attr \in {"metallic", "smoothness", "roughness"}

\* the file each flag names when it names one
PathOf(attr) ==
    CASE attr = "metallic"   -> "metallic.png"
      [] attr = "occlusion"  -> "ao.png"
      [] attr = "height"     -> "height.png"
      [] attr = "detail"     -> "detail.png"
      [] attr = "smoothness" -> "smooth.png"
      [] attr = "roughness"  -> "rough.png"

AttrSet == {Attrs[i] : i \in 1..Len(Attrs)}

Paths == {PathOf(a) : a \in AttrSet}

\* what decoding the file under a path can yield at the followed pixel: the
\* file's mode, its luminance at native resolution and its luminance after a
\* bicubic resize.  The metallic, occlusion, height and detail pictures are
\* fixed greys; the smoothness and roughness pictures hold any sample.
FileContents(path) ==
    CASE path = "metallic.png" -> {[mode |-> "L", lum |-> 40, bicubic |-> 44]}
      [] path = "ao.png"       -> {[mode |-> "RGB", lum |-> 80, bicubic |-> 88]}
      [] path = "height.png"   -> {[mode |-> "P", lum |-> 120, bicubic |-> 132]}
      [] path = "detail.png"   -> {[mode |-> "LA", lum |-> 160, bicubic |-> 176]}
      [] path = "smooth.png"   -> [mode : {"RGBA"}, lum : Samples, bicubic : Samples]
      [] path = "rough.png"    -> [mode : {"L"}, lum : Samples, bicubic : Samples]
      [] OTHER                 -> {[mode |-> "", lum |-> 0, bicubic |-> 0]}

\* getattr(args, attr, None)
GetAttr(a, attr) == IF HasAttr(a.mode, attr) THEN a[attr] ELSE None

VARIABLES
    args,          \* the parsed argparse namespace
    fs,            \* input files on disk: path -> [exists, size]
    dirs,          \* directories on disk, each a sequence of components
    outfile,       \* the image stored at args.out, NoImage while there is none
    writes,        \* number of times the output file was written
    reads,         \* <<path, value>> for each input file decoded so far
    pc,            \* position of main
    error,         \* the exception that ended the run, "" if none
    target_size,
    metallic_l, ao_l, height_l, detail_l, g_ignored, b_ignored, smooth_l,
    out_img,
    stdout         \* the lines printed so far

vars == <<args, fs, dirs, outfile, writes, reads, pc, error, target_size,
          metallic_l, ao_l, height_l, detail_l, g_ignored, b_ignored, smooth_l,
          out_img, stdout>>

env == <<args, fs>>

rasters == <<metallic_l, ao_l, height_l, detail_l, g_ignored, b_ignored, smooth_l>>

\* ------------------------------------------------------ the image library
\* number of bands of a PIL mode
Bands(mode) ==
    CASE mode = "L" -> 1 [] mode = "P" -> 1 [] mode = "LA" -> 2
      [] mode = "RGB" -> 3 [] mode = "RGBA" -> 4 [] OTHER -> 0

\* Image.new(mode, size, color)
ImageNew(mode, size, color) ==
    [mode |-> mode, size |-> size, px |-> [i \in 1..Bands(mode) |-> color]]

\* os.path.isfile(path)
isfile(disk, path) == path \in DOMAIN disk /\ disk[path].exists

\* Image.open(path) of a grayscale picture stored in mode content.mode: the
\* colour bands all carry the luminance, an alpha band is opaque, a palette
\* index selects the grey of the same value
ImageOpen(disk, path, content) ==
    [mode |-> content.mode, size |-> disk[path].size,
     px |-> [i \in 1..Bands(content.mode) |->
                IF content.mode \in {"LA", "RGBA"} /\ i = Bands(content.mode)
                THEN 255 ELSE content.lum]]

\* ITU-R 601-2 luma as PIL computes it in fixed point
Luma(r, g, b) == (r * 19595 + g * 38470 + b * 7471 + 32768) \div 65536

\* Image.convert(mode) between the modes the program uses
Convert(img, mode) ==
    IF img.mode = mode THEN img
    ELSE IF mode = "RGBA"
    THEN [img EXCEPT !.mode = "RGBA",
              !.px = CASE img.mode \in {"L", "P"} -> <<img.px[1], img.px[1], img.px[1], 255>>
                       [] img.mode = "LA"  -> <<img.px[1], img.px[1], img.px[1], img.px[2]>>
                       [] img.mode = "RGB" -> <<img.px[1], img.px[2], img.px[3], 255>>]
    ELSE [img EXCEPT !.mode = "L",
              !.px = CASE img.mode \in {"LA", "P"} -> <<img.px[1]>>
                       [] img.mode \in {"RGB", "RGBA"} -> <<Luma(img.px[1], img.px[2], img.px[3])>>]

\* Image.resize(size, resample=BICUBIC): the resolution becomes size and the
\* followed pixel takes the interpolated value
Resize(img, size, content) ==
    [img EXCEPT !.size = size, !.px = [i \in DOMAIN img.px |-> content.bicubic]]

\* outcome of a call that returns an image or raises; read is the file decoded
\* and loaded the raster as it was loaded from that file
Returned(img, path) == [raised |-> "", read |-> path, loaded |-> img, img |-> img]

Raised(exc) == [raised |-> exc, read |-> None, loaded |-> NoImage, img |-> NoImage]

\* ---------------------------------------------------------- pack_maskmap.py
\* read_grayscale falling back to the constant when the named file is missing
read_grayscale_fallback(path, fallback_value, size, disk, content) ==
    IF path = None \/ ~isfile(disk, path)
    THEN Returned(ImageNew("L", IF size = NoSize THEN <<1024, 1024>> ELSE size,
                           fallback_value), None)
    ELSE LET img   == ImageOpen(disk, path, content)
             img4  == IF img.mode \notin {"L", "LA", "RGB", "RGBA"} THEN Convert(img, "RGBA") ELSE img
             img_l == Convert(img4, "L")
         IN  IF size # NoSize /\ (img_l.size[1] # size[1] \/ img_l.size[2] # size[2])
             THEN Returned(Resize(img_l, size, content), path)
             ELSE Returned(img_l, path)

\* read_grayscale returning the picture at its native resolution
read_grayscale_no_resize(path, fallback_value, size, disk, content) ==
    IF path = None
    THEN Returned(ImageNew("L", IF size = NoSize THEN <<1024, 1024>> ELSE size,
                           fallback_value), None)
    ELSE IF ~isfile(disk, path)
    THEN Raised("FileNotFoundError")
    ELSE LET img   == ImageOpen(disk, path, content)
             img4  == IF img.mode \notin {"L", "LA", "RGB", "RGBA"} THEN Convert(img, "RGBA") ELSE img
         IN  Returned(Convert(img4, "L"), path)

read_grayscale(path, fallback_value, size, disk, content) ==
    IF path = None
    THEN Returned(ImageNew("L", IF size = NoSize THEN <<1024, 1024>> ELSE size,
                           fallback_value), None)
    ELSE IF ~isfile(disk, path)
    THEN Raised("FileNotFoundError")
    ELSE LET img   == ImageOpen(disk, path, content)
             img4  == IF img.mode \notin {"L", "LA", "RGB", "RGBA"} THEN Convert(img, "RGBA") ELSE img
             img_l == Convert(img4, "L")
         IN  IF size # NoSize
                /\ (img_l.size[1] # size[1] \/ img_l.size[2] # size[2])
             THEN Returned(Resize(img_l, size, content), path)
             ELSE Returned(img_l, path)

\* determine_target_size taking the last existing path instead of the first
determine_target_size_last(paths, disk) ==
    LET hits == {i \in 1..Len(paths) : Truthy(paths[i]) /\ isfile(disk, paths[i])}
    IN  IF hits = {} THEN <<1024, 1024>>
        ELSE disk[paths[CHOOSE i \in hits : \A j \in hits : i >= j]].size

determine_target_size(paths, disk) ==
    LET hits == {i \in 1..Len(paths) : Truthy(paths[i]) /\ isfile(disk, paths[i])}
    IN  IF hits = {} THEN <<1024, 1024>>
        ELSE disk[paths[CHOOSE i \in hits : \A j \in hits : i <= j]].size

ensure_uint8(image_l) == IF image_l.mode # "L" THEN Convert(image_l, "L") ELSE image_l

\* invert_l subtracting from 256
invert_l_from_256(image_l) ==
    LET im == ensure_uint8(image_l)
    IN  [im EXCEPT !.px = [i \in DOMAIN im.px |-> 256 - im.px[i]]]

invert_l(image_l) ==
    LET im == ensure_uint8(image_l)
    IN  [im EXCEPT !.px = [i \in DOMAIN im.px |-> 255 - im.px[i]]]

\* compose_rgba with the 2nd and 4th bands exchanged
compose_rgba_swapped(r, g, b, a) ==
    LET r8 == ensure_uint8(r)
        g8 == ensure_uint8(g)
        b8 == ensure_uint8(b)
        a8 == ensure_uint8(a)
    IN  IF r8.size = g8.size /\ r8.size = b8.size /\ r8.size = a8.size
        THEN Returned([mode |-> "RGBA", size |-> r8.size,
                       px |-> <<r8.px[1], a8.px[1], b8.px[1], g8.px[1]>>], None)
        ELSE Raised("ValueError")

\* Image.merge raises ValueError unless the bands agree in size
compose_rgba(r, g, b, a) ==
    LET r8 == ensure_uint8(r)
        g8 == ensure_uint8(g)
        b8 == ensure_uint8(b)
        a8 == ensure_uint8(a)
    IN  IF r8.size = g8.size /\ r8.size = b8.size /\ r8.size = a8.size
        THEN Returned([mode |-> "RGBA", size |-> r8.size,
                       px |-> <<r8.px[1], g8.px[1], b8.px[1], a8.px[1]>>], None)
        ELSE Raised("ValueError")

\* os.path.dirname(out_path)
dirname(out_path) == SubSeq(out_path, 1, Len(out_path) - 1)

\* os.makedirs(name, exist_ok=True): the directories on disk afterwards;
\* the empty name cannot be created
makedirs_fails(name) == name = <<>>

makedirs(name, dirset) == dirset \cup {SubSeq(name, 1, k) : k \in 1..Len(name)}

\* comparisons of fractions with positive denominators
Less(x, y) == x[1] * y[2] < y[1] * x[2]

\* Python's min(a, b) and max(a, b)
PyMin(a, b) == IF Less(b, a) THEN b ELSE a

PyMax(a, b) == IF Less(a, b) THEN b ELSE a

\* clamp01 that does not clamp
clamp01_unclamped(value) == value

clamp01(value) == PyMax(<<0, 1>>, PyMin(<<1, 1>>, value))

\* Python's round(x): to the nearest integer, a tie to the even one
PyRound(x) ==
    LET q == x[1] \div x[2]
        r == x[1] % x[2]
    IN  IF 2 * r < x[2] THEN q
        ELSE IF 2 * r > x[2] THEN q + 1
        ELSE IF q % 2 = 0 THEN q ELSE q + 1

\* int(round(clamp01(args.default_smoothness) * 255))
default_val(a) ==
    LET c == clamp01(a.default_smoothness) IN PyRound(<<c[1] * 255, c[2]>>)

\* resolve_smoothness looking at the roughness flag before the smoothness flag
resolve_smoothness_roughness_first(a, size, disk, content) ==
    IF Truthy(GetAttr(a, "roughness"))
    THEN LET rough == read_grayscale(a.roughness, 0, size, disk, content)
         IN  IF rough.raised # "" THEN rough
             ELSE IF a.invert_roughness
             THEN [rough EXCEPT !.img = invert_l(rough.img)]
             ELSE rough
    ELSE IF Truthy(GetAttr(a, "smoothness"))
    THEN read_grayscale(a.smoothness, default_val(a), size, disk, content)
    ELSE Returned(ImageNew("L", size, default_val(a)), None)

resolve_smoothness(a, size, disk, content) ==
    IF Truthy(GetAttr(a, "smoothness"))
    THEN read_grayscale(a.smoothness, default_val(a), size, disk, content)
    ELSE IF Truthy(GetAttr(a, "roughness"))
    THEN LET rough == read_grayscale(a.roughness, 0, size, disk, content)
         IN  IF rough.raised # "" THEN rough
             ELSE IF a.invert_roughness
             THEN [rough EXCEPT !.img = invert_l(rough.img)]
             ELSE rough
    ELSE Returned(ImageNew("L", size, default_val(a)), None)

\* the candidate loop of main
candidate_paths(a) ==
    LET present == SelectSeq(Attrs, LAMBDA attr : HasAttr(a.mode, attr) /\ Truthy(a[attr]))
    IN  [i \in 1..Len(present) |-> a[present[i]]]

\* x or "const ...": the text printed for a channel read from a file
PathOr(p, text) == IF Truthy(p) THEN <<p>> ELSE <<text>>

\* the entry with invert(...) not guarded by the presence of a roughness path
smoothness_entry_unguarded(a) ==
    IF Truthy(a.smoothness) THEN <<a.smoothness>>
    ELSE IF a.invert_roughness THEN <<"invert(", a.roughness, ")">>
    ELSE IF Truthy(a.roughness) THEN <<a.roughness>>
    ELSE <<"const ", a.default_smoothness>>

\* the "A (Smoothness)" entry of the mapping
smoothness_entry(a) ==
    IF Truthy(a.smoothness) THEN <<a.smoothness>>
    ELSE LET inner == IF a.invert_roughness
                      THEN (IF Truthy(a.roughness) THEN <<"invert(", a.roughness, ")">> ELSE <<>>)
                      ELSE (IF Truthy(a.roughness) THEN <<a.roughness>> ELSE <<>>)
         IN  IF inner # <<>> THEN inner ELSE <<"const ", a.default_smoothness>>

\* the mapping each mode hands to print_summary
mapping(a) ==
    CASE a.mode = "urp-ra" ->
           << <<"R (Metallic)", PathOr(a.metallic, "const 0")>>,
              <<"G (ignored)", <<"const 0">> >>,
              <<"B (ignored)", <<"const 0">> >>,
              <<"A (Smoothness)", smoothness_entry(a)>> >>
      [] a.mode = "urp-terrain" ->
           << <<"R (Metallic)", PathOr(a.metallic, "const 0")>>,
              <<"G (AO)", PathOr(a.occlusion, "const 1")>>,
              <<"B (Height)", PathOr(a.height, "const 0.5")>>,
              <<"A (Smoothness)", smoothness_entry(a)>> >>
      [] a.mode = "hdrp" ->
           << <<"R (Metallic)", PathOr(a.metallic, "const 0")>>,
              <<"G (AO)", PathOr(a.occlusion, "const 1")>>,
              <<"B (DetailMask)", PathOr(a.detail, "const 1")>>,
              <<"A (Smoothness)", smoothness_entry(a)>> >>

print_summary(mode, map, size, out_path) ==
    << <<"Mode:", mode>>,
       <<"Resolution:", size[1], "x", size[2]>>,
       <<"Output:", out_path>>,
       <<"Channel mapping:">> >> \o map

\* -------------------------------------------------------------- the run
Missing == [exists |-> FALSE, size |-> NoSize]

\* what can be on disk under a path the command line names
FileStates == {Missing} \cup {[exists |-> TRUE, size |-> s] : s \in Sizes}

\* a flag of the mode with the file behind it: not given, or given the flag's
\* path with any file state; a flag the mode lacks is absent
FlagSettings(mode, attr) ==
    IF HasAttr(mode, attr)
    THEN {<<None, Missing>>} \cup {<<PathOf(attr), st>> : st \in FileStates}
    ELSE {<<None, Missing>>}

Init ==
    /\ \E mode \in Modes :
         \E me \in FlagSettings(mode, "metallic"), oc \in FlagSettings(mode, "occlusion"),
            he \in FlagSettings(mode, "height"), de \in FlagSettings(mode, "detail"),
            sm \in FlagSettings(mode, "smoothness"), ro \in FlagSettings(mode, "roughness") :
           \E inv \in BOOLEAN, ds \in DefaultSmoothnessValues, out \in OutPaths :
             /\ args = [mode |-> mode, metallic |-> me[1], occlusion |-> oc[1],
                        height |-> he[1], detail |-> de[1], smoothness |-> sm[1],
                        roughness |-> ro[1], invert_roughness |-> inv,
                        default_smoothness |-> ds, out |-> out]
             /\ fs = [p \in Paths |->
                        CASE p = PathOf("metallic")   -> me[2]
                          [] p = PathOf("occlusion")  -> oc[2]
                          [] p = PathOf("height")     -> he[2]
                          [] p = PathOf("detail")     -> de[2]
                          [] p = PathOf("smoothness") -> sm[2]
                          [] p = PathOf("roughness")  -> ro[2]]
    /\ dirs \in {{}, {dirname(args.out)} \ {<<>>}}
    /\ outfile = NoImage
    /\ writes = 0
    /\ reads = {}
    /\ pc = "size"
    /\ error = ""
    /\ target_size = NoSize
    /\ metallic_l = NoImage /\ ao_l = NoImage /\ height_l = NoImage /\ detail_l = NoImage
    /\ g_ignored = NoImage /\ b_ignored = NoImage /\ smooth_l = NoImage
    /\ out_img = NoImage
    /\ stdout = <<>>

\* main saving before the smoothness channel is resolved and composed
next_step_save_early(mode, step) ==
    CASE step = "size"       -> "metallic"
      [] step = "metallic"   -> IF mode = "urp-ra" THEN "save" ELSE "occlusion"
      [] step = "occlusion"  -> IF mode = "urp-terrain" THEN "height" ELSE "detail"
      [] step = "height"     -> "save"
      [] step = "detail"     -> "save"
      [] step = "save"       -> "smoothness"
      [] step = "smoothness" -> IF mode = "urp-ra" THEN "ignored" ELSE "compose"
      [] step = "ignored"    -> "compose"
      [] step = "compose"    -> "summary"
      [] step = "summary"    -> "done"

\* the statement of main that follows a statement that returned
next_step(mode, step) ==
    CASE step = "size"       -> "metallic"
      [] step = "metallic"   -> IF mode = "urp-ra" THEN "smoothness" ELSE "occlusion"
      [] step = "occlusion"  -> IF mode = "urp-terrain" THEN "height" ELSE "detail"
      [] step = "height"     -> "smoothness"
      [] step = "detail"     -> "smoothness"
      [] step = "smoothness" -> IF mode = "urp-ra" THEN "ignored" ELSE "compose"
      [] step = "ignored"    -> "compose"
      [] step = "compose"    -> "save"
      [] step = "save"       -> "summary"
      [] step = "summary"    -> "done"

\* an uncaught exception ends the process with status 1
Raise(exc) == pc' = "raised" /\ error' = exc

\* the files decoded so far, with the one a call has just decoded
Noted(res) == IF res.read = None THEN reads ELSE reads \cup {<<res.read, res.loaded.px[1]>>}

\* main, line 189
DetermineTargetSize ==
    /\ pc = "size"
    /\ target_size' = determine_target_size(candidate_paths(args), fs)
    /\ pc' = next_step(args.mode, pc)
    /\ UNCHANGED <<env, dirs, outfile, writes, reads, error, rasters, out_img, stdout>>

\* main, lines 194, 209, 224
LoadMetallic ==
    /\ pc = "metallic"
    /\ \E content \in FileContents(args.metallic) :
         LET res == read_grayscale(args.metallic, 0, target_size, fs, content)
         IN  IF res.raised # ""
             THEN Raise(res.raised) /\ UNCHANGED <<metallic_l, reads>>
             ELSE /\ metallic_l' = res.img
                  /\ reads' = Noted(res)
                  /\ pc' = next_step(args.mode, pc)
                  /\ error' = error
    /\ UNCHANGED <<env, dirs, outfile, writes, target_size, ao_l, height_l, detail_l,
                   g_ignored, b_ignored, smooth_l, out_img, stdout>>

\* main, lines 210, 225
LoadOcclusion ==
    /\ pc = "occlusion"
    /\ \E content \in FileContents(args.occlusion) :
         LET res == read_grayscale(args.occlusion, 255, target_size, fs, content)
         IN  IF res.raised # ""
             THEN Raise(res.raised) /\ UNCHANGED <<ao_l, reads>>
             ELSE /\ ao_l' = res.img
                  /\ reads' = Noted(res)
                  /\ pc' = next_step(args.mode, pc)
                  /\ error' = error
    /\ UNCHANGED <<env, dirs, outfile, writes, target_size, metallic_l, height_l, detail_l,
                   g_ignored, b_ignored, smooth_l, out_img, stdout>>

\* main, line 211
LoadHeight ==
    /\ pc = "height"
    /\ \E content \in FileContents(GetAttr(args, "height")) :
         LET res == read_grayscale(GetAttr(args, "height"), 128, target_size, fs, content)
         IN  IF res.raised # ""
             THEN Raise(res.raised) /\ UNCHANGED <<height_l, reads>>
             ELSE /\ height_l' = res.img
                  /\ reads' = Noted(res)
                  /\ pc' = next_step(args.mode, pc)
                  /\ error' = error
    /\ UNCHANGED <<env, dirs, outfile, writes, target_size, metallic_l, ao_l, detail_l,
                   g_ignored, b_ignored, smooth_l, out_img, stdout>>

\* main, line 226
LoadDetail ==
    /\ pc = "detail"
    /\ \E content \in FileContents(GetAttr(args, "detail")) :
         LET res == read_grayscale(GetAttr(args, "detail"), 255, target_size, fs, content)
         IN  IF res.raised # ""
             THEN Raise(res.raised) /\ UNCHANGED <<detail_l, reads>>
             ELSE /\ detail_l' = res.img
                  /\ reads' = Noted(res)
                  /\ pc' = next_step(args.mode, pc)
                  /\ error' = error
    /\ UNCHANGED <<env, dirs, outfile, writes, target_size, metallic_l, ao_l, height_l,
                   g_ignored, b_ignored, smooth_l, out_img, stdout>>

\* main, lines 195, 212, 227
ResolveSmoothness ==
    /\ pc = "smoothness"
    /\ \E content \in FileContents(IF Truthy(args.smoothness) THEN args.smoothness
                                     ELSE args.roughness) :
         LET res == resolve_smoothness(args, target_size, fs, content)
         IN  IF res.raised # ""
             THEN Raise(res.raised) /\ UNCHANGED <<smooth_l, reads>>
             ELSE /\ smooth_l' = res.img
                  /\ reads' = Noted(res)
                  /\ pc' = next_step(args.mode, pc)
                  /\ error' = error
    /\ UNCHANGED <<env, dirs, outfile, writes, target_size, metallic_l, ao_l, height_l,
                   detail_l, g_ignored, b_ignored, out_img, stdout>>

\* main, lines 196-197
NewIgnored ==
    /\ pc = "ignored"
    /\ g_ignored' = ImageNew("L", target_size, 0)
    /\ b_ignored' = ImageNew("L", target_size, 0)
    /\ pc' = next_step(args.mode, pc)
    /\ UNCHANGED <<env, dirs, outfile, writes, reads, error, target_size, metallic_l, ao_l,
                   height_l, detail_l, smooth_l, out_img, stdout>>

\* the four rasters the mode hands to compose_rgba
Channels ==
    CASE args.mode = "urp-ra"      -> <<metallic_l, g_ignored, b_ignored, smooth_l>>
      [] args.mode = "urp-terrain" -> <<metallic_l, ao_l, height_l, smooth_l>>
      [] args.mode = "hdrp"        -> <<metallic_l, ao_l, detail_l, smooth_l>>

\* main, lines 198, 213, 228
ComposeRgba ==
    /\ pc = "compose"
    /\ LET res == compose_rgba(Channels[1], Channels[2], Channels[3], Channels[4])
       IN  IF res.raised # ""
           THEN Raise(res.raised) /\ UNCHANGED out_img
           ELSE out_img' = res.img /\ pc' = next_step(args.mode, pc) /\ error' = error
    /\ UNCHANGED <<env, dirs, outfile, writes, reads, target_size, rasters, stdout>>

\* save_png, called at lines 199, 214, 229
SavePng ==
    /\ pc = "save"
    /\ IF makedirs_fails(dirname(args.out))
       THEN Raise("FileNotFoundError") /\ UNCHANGED <<dirs, outfile, writes>>
       ELSE /\ dirs' = makedirs(dirname(args.out), dirs)
            /\ outfile' = out_img
            /\ writes' = writes + 1
            /\ pc' = next_step(args.mode, pc)
            /\ error' = error
    /\ UNCHANGED <<env, reads, target_size, rasters, out_img, stdout>>

\* print_summary, called at lines 200, 215, 230, and return 0
PrintSummary ==
    /\ pc = "summary"
    /\ stdout' = stdout \o print_summary(args.mode, mapping(args), target_size, args.out)
    /\ pc' = next_step(args.mode, pc)
    /\ UNCHANGED <<env, dirs, outfile, writes, reads, error, target_size, rasters, out_img>>

Next ==
    \/ DetermineTargetSize
    \/ LoadMetallic
    \/ LoadOcclusion
    \/ LoadHeight
    \/ LoadDetail
    \/ ResolveSmoothness
    \/ NewIgnored
    \/ ComposeRgba
    \/ SavePng
    \/ PrintSummary

Spec == Init /\ [][Next]_vars

\* sys.exit(main()): the process status once the run has ended
ExitCode == IF pc = "done" THEN 0 ELSE 1

Ended == pc \in {"done", "raised"}

TypeOK ==
    /\ pc \in {"size", "metallic", "occlusion", "height", "detail", "smoothness",
               "ignored", "compose", "save", "summary", "done", "raised"}
    /\ writes \in 0..1
    /\ error \in {"", "FileNotFoundError", "ValueError"}

\* ------------------------------------------------------------ properties
\* the flag attr is accepted by the mode and names a path
Supplied(attr) == HasAttr(args.mode, attr) /\ Truthy(args[attr])

\* the flag attr names a path with no file behind it
NamesMissing(attr) == Supplied(attr) /\ ~fs[args[attr]].exists

\* the flag attr names a path with a file behind it
NamesFile(attr) == Supplied(attr) /\ fs[args[attr]].exists

\* the run has got past loading its channels
PastLoading == pc \in {"ignored", "compose", "save", "summary", "done"}

\* nothing of the output exists: no file, no write, no summary
NothingWritten == writes = 0 /\ outfile = NoImage /\ stdout = <<>>

\* the values decoded from the file under path p so far
ReadFrom(p) == {r[2] : r \in {x \in reads : x[1] = p}}

\* C1 as claimed: whatever the other flags are, a run with a flag that names
\* a missing path writes no output and never completes successfully.
C1_AsClaimed ==
    (\E attr \in AttrSet : NamesMissing(attr))
        => /\ NothingWritten
           /\ pc # "done"
           /\ (Ended => ExitCode # 0)

\* the flags whose file the run reads: every supplied flag, except roughness
\* when a smoothness path is supplied
Consulted(attr) == Supplied(attr) /\ (attr = "roughness" => ~Supplied("smoothness"))

\* C1 amended: a run in which metallic, occlusion, height, detail or
\* smoothness names a missing path, or roughness names one while no
\* smoothness path is supplied, never gets past loading, writes nothing, and
\* ends only by FileNotFoundError with a non-zero status.
C1_MissingInputAborts ==
    (\E attr \in AttrSet : Consulted(attr) /\ NamesMissing(attr))
        => /\ ~PastLoading
           /\ NothingWritten
           /\ (Ended => ExitCode # 0 /\ error = "FileNotFoundError")

\* a run ended by the missing roughness file, after metallic was loaded
C1_Witness ==
    /\ pc = "raised" /\ error = "FileNotFoundError"
    /\ ~Supplied("smoothness") /\ NamesMissing("roughness")
    /\ \A attr \in AttrSet \ {"roughness"} : ~NamesMissing(attr)
    /\ metallic_l # NoImage
    /\ NothingWritten

\* the resolution of the first supplied path that exists, in the fixed order
FirstExisting(attrs) ==
    LET hits == {i \in 1..Len(attrs) : NamesFile(attrs[i])}
    IN  fs[args[attrs[CHOOSE i \in hits : \A j \in hits : i <= j]]].size

\* C2: a successful run leaves an output of 4 components whose resolution is
\* that of the first supplied input that exists (metallic, occlusion, height,
\* detail, smoothness, roughness); every loaded channel was brought to that
\* resolution; if all supplied inputs share a resolution, it is the output's.
C2_OutputResolution ==
    (pc = "done" /\ \E attr \in AttrSet : NamesFile(attr))
        => /\ outfile.mode = "RGBA" /\ Len(outfile.px) = 4
           /\ outfile.size = FirstExisting(Attrs)
           /\ \A i \in 1..4 : Channels[i].size = outfile.size
           /\ \A s \in Sizes :
                (\A attr \in AttrSet : NamesFile(attr) => fs[args[attr]].size = s)
                    => outfile.size = s

\* a successful run with a metallic picture and a differently sized occlusion
\* picture: the output has the metallic resolution
C2_Witness ==
    /\ pc = "done"
    /\ NamesFile("metallic") /\ NamesFile("occlusion")
    /\ fs[args.occlusion].size # fs[args.metallic].size
    /\ outfile.size = fs[args.metallic].size
    /\ ao_l.size = fs[args.metallic].size

\* the fallback constants of the first three channels of each mode
Fallbacks(mode) ==
    CASE mode = "urp-terrain" -> <<0, 255, 128>>
      [] mode = "hdrp"        -> <<0, 255, 255>>
      [] mode = "urp-ra"      -> <<0, 0, 0>>

\* S is the integer nearest to 255 times x clamped to [0, 1]
NearestTo255(S, x) ==
    LET c == IF x[1] < 0 THEN <<0, 1>> ELSE IF x[1] > x[2] THEN <<1, 1>> ELSE x
        d == S * c[2] - 255 * c[1]
    IN  2 * d <= c[2] /\ 2 * (0 - d) <= c[2]

\* C3: with no channel input supplied, a written output is 1024x1024 and
\* holds the mode's fallback constants and S = round(clamp(default) * 255),
\* which is 128 for 0.5 and always within 0..255.
C3_NoInputsConstants ==
    (writes = 1 /\ \A attr \in AttrSet : ~Supplied(attr))
        => /\ outfile.size = <<1024, 1024>>
           /\ SubSeq(outfile.px, 1, 3) = Fallbacks(args.mode)
           /\ outfile.px[4] \in 0..255
           /\ NearestTo255(outfile.px[4], args.default_smoothness)
           /\ (args.default_smoothness = <<1, 2>> => outfile.px[4] = 128)

\* urp-terrain without inputs and the default smoothness 0.5
C3_Witness ==
    /\ pc = "done" /\ args.mode = "urp-terrain"
    /\ \A attr \in AttrSet : ~Supplied(attr)
    /\ args.default_smoothness = <<1, 2>>
    /\ outfile.size = <<1024, 1024>>
    /\ outfile.px = <<0, 255, 128, 128>>

\* the resolution selected when the roughness flag is left out of the scan
SizeWithoutRoughness ==
    IF \E i \in 1..5 : NamesFile(Attrs[i])
    THEN FirstExisting(SubSeq(Attrs, 1, 5)) ELSE <<1024, 1024>>

\* whether the run succeeds, told without the roughness and invert flags
SucceedsWithoutRoughness ==
    /\ \A i \in 1..5 : ~NamesMissing(Attrs[i])
    /\ dirname(args.out) # <<>>

\* C4: when a smoothness path is supplied, the roughness file is never
\* decoded, the 4th channel is the raster decoded from the smoothness file at
\* the resolution the other flags select, and whether the run succeeds is
\* settled by the other flags too: nothing depends on --roughness or
\* --invert-roughness.
C4_SmoothnessPriority ==
    Supplied("smoothness")
        => /\ ReadFrom(PathOf("roughness")) = {}
           /\ (smooth_l # NoImage =>
                  /\ ReadFrom(args.smoothness) = {smooth_l.px[1]}
                  /\ smooth_l.size = SizeWithoutRoughness)
           /\ (writes = 1 =>
                  /\ outfile.px[4] = smooth_l.px[1]
                  /\ outfile.size = SizeWithoutRoughness)
           /\ (Ended => (pc = "done" <=> SucceedsWithoutRoughness))

\* a successful run with a smoothness picture, a roughness picture of another
\* resolution and --invert-roughness
C4_Witness ==
    /\ pc = "done"
    /\ NamesFile("smoothness") /\ NamesFile("roughness") /\ args.invert_roughness
    /\ fs[args.roughness].size # fs[args.smoothness].size
    /\ ~Supplied("metallic")
    /\ outfile.size = fs[args.smoothness].size
    /\ ReadFrom(args.smoothness) = {outfile.px[4]}

C6_UrpRaUnusedChannels ==
    (args.mode = "urp-ra" /\ writes = 1)
        => /\ outfile.px[2] = 0 /\ outfile.px[3] = 0
           /\ outfile.px[1] = metallic_l.px[1]
           /\ (IF Supplied("metallic")
               THEN ReadFrom(args.metallic) = {outfile.px[1]}
               ELSE outfile.px[1] = 0)
           /\ outfile.px[4] = smooth_l.px[1]

\* an urp-ra output made from a metallic picture and a roughness picture
C6_Witness ==
    /\ pc = "done" /\ args.mode = "urp-ra"
    /\ NamesFile("metallic") /\ NamesFile("roughness") /\ ~Supplied("smoothness")
    /\ outfile.px[1] # 0 /\ outfile.px[4] # 0
    /\ outfile.px[2] = 0 /\ outfile.px[3] = 0

\* C7 as claimed: a run whose inputs all loaded ends with the output file
\* written and status 0, whatever the shape of the --out path.
C7_AsClaimed ==
    (Ended /\ smooth_l # NoImage)
        => /\ pc = "done" /\ ExitCode = 0
           /\ writes = 1 /\ outfile = out_img
           /\ (dirname(args.out) # <<>> => dirname(args.out) \in dirs)

\* the "A (Smoothness)" entry of the printed mapping
PrintedSmoothness == stdout[8][2]

\* the byte of the constant smoothness channel
ConstSmoothness ==
    CASE args.default_smoothness = <<0 - 1, 2>> -> 0
      [] args.default_smoothness = <<1, 2>>     -> 128
      [] args.default_smoothness = <<3, 2>>     -> 255

\* C8: the printed provenance of the 4th channel is the smoothness path, else
\* invert(roughness path) under --invert-roughness, else the roughness path,
\* else a const entry, and in each case that is the source the resolved
\* smoothness raster was made from.
C8_ProvenanceAgrees ==
    pc = "done"
        => /\ stdout[8][1] = "A (Smoothness)"
           /\ IF Supplied("smoothness")
              THEN /\ PrintedSmoothness = <<args.smoothness>>
                   /\ ReadFrom(args.smoothness) = {smooth_l.px[1]}
                   /\ ReadFrom(PathOf("roughness")) = {}
              ELSE IF Supplied("roughness") /\ args.invert_roughness
              THEN /\ PrintedSmoothness = <<"invert(", args.roughness, ")">>
                   /\ ReadFrom(args.roughness) = {255 - smooth_l.px[1]}
              ELSE IF Supplied("roughness")
              THEN /\ PrintedSmoothness = <<args.roughness>>
                   /\ ReadFrom(args.roughness) = {smooth_l.px[1]}
              ELSE /\ PrintedSmoothness = <<"const ", args.default_smoothness>>
                   /\ ReadFrom(PathOf("smoothness")) = {}
                   /\ ReadFrom(PathOf("roughness")) = {}
                   /\ smooth_l.px[1] = ConstSmoothness

\* --invert-roughness without a roughness or smoothness path prints a const
C8_Witness ==
    /\ pc = "done"
    /\ args.invert_roughness /\ ~Supplied("roughness") /\ ~Supplied("smoothness")
    /\ Len(PrintedSmoothness) = 2 /\ PrintedSmoothness[1] = "const "

\* the channels of the mode have been loaded up to and including position k
LoadedUpTo(k) == \A i \in 1..k : Channels[i] # NoImage

\* what holds of the order of a run in every state
C9_State ==
    /\ (target_size = NoSize => metallic_l = NoImage)
    /\ (ao_l # NoImage => metallic_l # NoImage)
    /\ (height_l # NoImage \/ detail_l # NoImage => ao_l # NoImage)
    /\ (smooth_l # NoImage =>
          /\ metallic_l # NoImage
          /\ (args.mode = "urp-terrain" => height_l # NoImage)
          /\ (args.mode = "hdrp" => detail_l # NoImage))
    /\ (out_img # NoImage => LoadedUpTo(4))
    /\ (writes > 0 => out_img # NoImage /\ outfile = out_img)
    /\ writes <= 1
    /\ (stdout # <<>> => writes = 1 /\ pc = "done")
    /\ (pc = "raised" /\ smooth_l = NoImage => NothingWritten)

\* what holds of every step: directories and the output file change only in
\* the save step, which comes after composition
C9_Step ==
    (dirs' # dirs \/ outfile' # outfile \/ writes' # writes)
        => pc = "save" /\ out_img # NoImage /\ LoadedUpTo(4)

\* C9: the target resolution is selected first, the channels are loaded in
\* the order metallic, occlusion, height or detail, smoothness, and only when
\* all are loaded does the run compose, write once and then print; a run that
\* fails while loading creates no directory, writes nothing, prints nothing.
C9_Ordering == []C9_State /\ [][C9_Step]_vars

\* a run that failed on its smoothness input after three channels were loaded
C9_Witness ==
    /\ pc = "raised" /\ error = "FileNotFoundError"
    /\ args.mode = "hdrp" /\ detail_l # NoImage /\ smooth_l = NoImage
    /\ dirname(args.out) # <<>> /\ dirs = {}
    /\ NothingWritten

\* C10: whenever composition is reached, the four rasters handed to it are
\* single-band rasters of exactly the selected target resolution, and the
\* compositor never fails.
C10_EqualResolution ==
    /\ (pc = "compose" =>
          \A i \in 1..4 : Channels[i].mode = "L" /\ Channels[i].size = target_size)
    /\ error # "ValueError"

\* composition reached with a resampled file, a constant channel and an
\* inverted roughness raster
C10_Witness ==
    /\ pc = "compose" /\ args.mode = "urp-terrain"
    /\ NamesFile("metallic") /\ NamesFile("occlusion") /\ ~Supplied("height")
    /\ fs[args.occlusion].size # fs[args.metallic].size
    /\ ~Supplied("smoothness") /\ NamesFile("roughness") /\ args.invert_roughness
    /\ fs[args.roughness].size # target_size

====
